---- MODULE Spec2Model ----
(***************************************************************************)
(* Model of claude-usage-lib: the session segmenter (identifier.rs), the   *)
(* session block accumulator (data_structures.rs), the entry loader        *)
(* (loader.rs) and the usage monitor (monitor.rs).                         *)
(*                                                                         *)
(* Time is an integer number of ticks since the epoch; one second is       *)
(* TicksPerSecond ticks, so that sub-second differences exist and          *)
(* Duration::num_seconds truncates.  cost_usd is an integer number of      *)
(* micro-dollars.  duration_minutes is kept in sixtieths of a minute       *)
(* (num_seconds / 60.0 without performing the division), so 1.0 minute is  *)
(* SecondsPerMinute.                                                       *)
(***************************************************************************)
EXTENDS Integers, Sequences, FiniteSets, TLC

\* ------------------------------------------------------------------ bounds
MaxLen == 3
TicksPerSecond == 2
MaxEntries == 3
MaxFileLines == 2
MaxDirItems == 2

\* --------------------------------------------------------------- time base
SecondsPerMinute == 60
MinutesPerHour == 60
DefaultSessionHours == 5

Second == TicksPerSecond
Minute == SecondsPerMinute * Second
Hour == MinutesPerHour * Minute

\* 12:00:00 of some day, the base time used by the unit tests
BaseTime == 12 * Hour

\* ------------------------------------------------------------ usage entries
UsageEntry(ts, model, inp, out, cc, cr, cost) ==
    [timestamp |-> ts, model |-> model,
     input_tokens |-> inp, output_tokens |-> out,
     cache_creation_input_tokens |-> cc, cache_read_input_tokens |-> cr,
     cost_usd |-> cost]

SonnetEntry(ts) == UsageEntry(ts, "claude-3-sonnet-20240229", 100, 50, 0, 0, 1000)
OpusEntry(ts) == UsageEntry(ts, "claude-3-opus-20240229", 200, 75, 25, 10, 5000)

TimePoints ==
    { BaseTime, BaseTime + 1, BaseTime + 30 * Second, BaseTime + 30 * Minute,
      BaseTime + Hour, BaseTime + DefaultSessionHours * Hour, BaseTime + 6 * Hour }

HaikuEntry(ts) == UsageEntry(ts, "claude-3-haiku-20240307", 40, 10, 5, 0, 100)
Opus4Entry(ts) == UsageEntry(ts, "claude-opus-4-20250514", 30, 20, 0, 0, 1950)
UnknownEntry(ts) == UsageEntry(ts, "gpt-4", 70, 30, 0, 0, 0)

Entries == { SonnetEntry(t) : t \in TimePoints } \cup { OpusEntry(t) : t \in TimePoints }

Durations == { DefaultSessionHours * Hour, Hour }

\* the five hourly entries of the "same block" example
FiveHourly == [i \in 1..5 |-> SonnetEntry(BaseTime + (i - 1) * Hour)]

SeqsUpTo(S, n) == UNION { [1..k -> S] : k \in 0..n }

Inputs == SeqsUpTo(Entries, MaxLen) \cup { FiveHourly }

IsSorted(s) == \A i \in 1..(Len(s) - 1) : s[i].timestamp <= s[i + 1].timestamp

\* ------------------------------------------------------------ TokenCounts
TokenCounts_new ==
    [input_tokens |-> 0, output_tokens |-> 0,
     cache_creation_input_tokens |-> 0, cache_read_input_tokens |-> 0]

TokenCounts_add_entry_swapped(tc, entry) ==
    [input_tokens |-> tc.input_tokens + entry.input_tokens,
     output_tokens |-> tc.output_tokens + entry.output_tokens,
     cache_creation_input_tokens |->
         tc.cache_creation_input_tokens + entry.cache_read_input_tokens,
     cache_read_input_tokens |->
         tc.cache_read_input_tokens + entry.cache_read_input_tokens]

TokenCounts_add_entry(tc, entry) ==
    [input_tokens |-> tc.input_tokens + entry.input_tokens,
     output_tokens |-> tc.output_tokens + entry.output_tokens,
     cache_creation_input_tokens |->
         tc.cache_creation_input_tokens + entry.cache_creation_input_tokens,
     cache_read_input_tokens |->
         tc.cache_read_input_tokens + entry.cache_read_input_tokens]

\* ------------------------------------------------------------ SessionBlock
\* chrono Duration::num_seconds: whole seconds, truncated toward zero
num_seconds(d) ==
    IF d >= 0 THEN d \div TicksPerSecond ELSE 0 - ((0 - d) \div TicksPerSecond)

SessionBlock_new(start_time, end_time) ==
    [start_time |-> start_time, end_time |-> end_time, entries |-> <<>>,
     token_counts |-> TokenCounts_new, cost_usd |-> 0, duration_minutes |-> 0]

update_duration(block) ==
    IF block.entries # <<>>
    THEN LET actual_start == block.entries[1].timestamp
             actual_end == block.entries[Len(block.entries)].timestamp
             d == num_seconds(actual_end - actual_start)
         IN  [block EXCEPT !.duration_minutes =
                              IF d = 0 THEN SecondsPerMinute ELSE d]
    ELSE block

SessionBlock_add_entry(block, entry) ==
    update_duration(
        [block EXCEPT !.token_counts = TokenCounts_add_entry(@, entry),
                      !.cost_usd = @ + entry.cost_usd,
                      !.entries = Append(@, entry)])

\* -------------------------------------------------------- SessionIdentifier
round_to_hour_up(timestamp) == timestamp - (timestamp % Hour) + Hour

round_to_hour(timestamp) == timestamp - (timestamp % Hour)

create_block_for_entry_hour_early(session_duration, entry) ==
    LET start_time == round_to_hour(entry.timestamp) - Hour
        end_time == start_time + session_duration + Hour
    IN  SessionBlock_new(start_time, end_time)

create_block_for_entry_extra_hour(session_duration, entry) ==
    LET start_time == round_to_hour(entry.timestamp)
        end_time == start_time + session_duration + Hour
    IN  SessionBlock_new(start_time, end_time)

create_block_for_entry_unrounded(session_duration, entry) ==
    SessionBlock_new(round_to_hour(entry.timestamp),
                     entry.timestamp + session_duration)

create_block_for_entry(session_duration, entry) ==
    LET start_time == round_to_hour(entry.timestamp)
        end_time == start_time + session_duration
    IN  SessionBlock_new(start_time, end_time)

should_create_new_block_late(session_duration, block, entry) ==
    IF entry.timestamp > block.end_time
    THEN TRUE
    ELSE IF block.entries # <<>>
            /\ entry.timestamp - block.entries[Len(block.entries)].timestamp
                   >= session_duration
         THEN TRUE
         ELSE FALSE

should_create_new_block_strict(session_duration, block, entry) ==
    IF entry.timestamp > block.end_time
    THEN TRUE
    ELSE IF block.entries # <<>>
            /\ entry.timestamp - block.entries[Len(block.entries)].timestamp
                   > session_duration
         THEN TRUE
         ELSE FALSE

should_create_new_block_from_start(session_duration, block, entry) ==
    IF entry.timestamp >= block.start_time
    THEN TRUE
    ELSE IF block.entries # <<>>
            /\ entry.timestamp - block.entries[Len(block.entries)].timestamp
                   >= session_duration
         THEN TRUE
         ELSE FALSE

should_create_new_block(session_duration, block, entry) ==
    IF entry.timestamp >= block.end_time
    THEN TRUE
    ELSE IF block.entries # <<>>
            /\ entry.timestamp - block.entries[Len(block.entries)].timestamp
                   >= session_duration
         THEN TRUE
         ELSE FALSE

\* One iteration of the for loop of identify_blocks.  The loop state is the
\* vector of closed blocks and the Option current_block (<<>> is None,
\* <<b>> is Some(b)).
ScanEntry_drop_closed(session_duration, st, entry) ==
    IF st.current_block # <<>>
    THEN LET block == st.current_block[1]
         IN  IF should_create_new_block(session_duration, block, entry)
             THEN [blocks |-> st.blocks,
                   current_block |->
                       <<SessionBlock_add_entry(
                             create_block_for_entry(session_duration, entry), entry)>>]
             ELSE [blocks |-> st.blocks,
                   current_block |-> <<SessionBlock_add_entry(block, entry)>>]
    ELSE [blocks |-> st.blocks,
          current_block |->
              <<SessionBlock_add_entry(
                    create_block_for_entry(session_duration, entry), entry)>>]

ScanEntry_new_block_unfilled(session_duration, st, entry) ==
    IF st.current_block # <<>>
    THEN LET block == st.current_block[1]
         IN  IF should_create_new_block(session_duration, block, entry)
             THEN [blocks |-> Append(st.blocks, block),
                   current_block |->
                       <<create_block_for_entry(session_duration, entry)>>]
             ELSE [blocks |-> st.blocks,
                   current_block |-> <<SessionBlock_add_entry(block, entry)>>]
    ELSE [blocks |-> st.blocks,
          current_block |->
              <<SessionBlock_add_entry(
                    create_block_for_entry(session_duration, entry), entry)>>]

ScanEntry(session_duration, st, entry) ==
    IF st.current_block # <<>>
    THEN LET block == st.current_block[1]
         IN  IF should_create_new_block(session_duration, block, entry)
             THEN [blocks |-> Append(st.blocks, block),
                   current_block |->
                       <<SessionBlock_add_entry(
                             create_block_for_entry(session_duration, entry), entry)>>]
             ELSE [blocks |-> st.blocks,
                   current_block |-> <<SessionBlock_add_entry(block, entry)>>]
    ELSE [blocks |-> st.blocks,
          current_block |->
              <<SessionBlock_add_entry(
                    create_block_for_entry(session_duration, entry), entry)>>]

RECURSIVE ScanFrom(_, _, _, _)
ScanFrom(session_duration, st, es, i) ==
    IF i > Len(es) THEN st
    ELSE ScanFrom(session_duration, ScanEntry(session_duration, st, es[i]), es, i + 1)

identify_blocks(session_duration, es) ==
    IF es = <<>>
    THEN <<>>
    ELSE LET st == ScanFrom(session_duration,
                            [blocks |-> <<>>, current_block |-> <<>>], es, 1)
         IN  st.blocks \o st.current_block

\* ---------------------------------------------------------------- DataLoader
\* data_structures.rs 313-326; rates in thousandths of a dollar per million
\* tokens, so that 1.875 is 1875
ModelPricing_new(input, output, cache_creation, cache_read) ==
    [input_cost_per_token |-> input,
     output_cost_per_token |-> output,
     cache_creation_input_token_cost |-> cache_creation,
     cache_read_input_token_cost |-> cache_read]

\* pricing.rs 8-98: the table built by PricingProvider::new, looked up
get_pricing(model) ==
    CASE model \in {"claude-3-opus-20240229", "claude-opus-4-20250514"} ->
             <<ModelPricing_new(15000, 75000, 18750, 1875)>>
      [] model \in {"claude-3-sonnet-20240229", "claude-3-5-sonnet-20240620",
                    "claude-3-5-sonnet-20241022", "claude-sonnet-4-20250514"} ->
             <<ModelPricing_new(3000, 15000, 3750, 300)>>
      [] model = "claude-3-haiku-20240307" ->
             <<ModelPricing_new(250, 1250, 300, 30)>>
      [] model = "claude-3-5-haiku-20241022" ->
             <<ModelPricing_new(1000, 5000, 1250, 100)>>
      [] OTHER -> <<>>

\* data_structures.rs 344-357: the cost in micro-dollars, rounded to the
\* nearest one
ModelPricing_calculate_cost(pricing, input_tokens, output_tokens, cc_tokens, cr_tokens) ==
    (input_tokens * pricing.input_cost_per_token
         + output_tokens * pricing.output_cost_per_token
         + cc_tokens * pricing.cache_creation_input_token_cost
         + cr_tokens * pricing.cache_read_input_token_cost
         + 500) \div 1000

\* pricing.rs 100-116
calculate_cost(model, input_tokens, output_tokens, cc_tokens, cr_tokens) ==
    IF get_pricing(model) = <<>> THEN <<>>
    ELSE <<ModelPricing_calculate_cost(get_pricing(model)[1], input_tokens,
                                       output_tokens, cc_tokens, cr_tokens)>>

\* ------------------------------------------------------------------ lines
\* A line of a log file. kind is "json" for a JSON object, "blank" for an
\* empty line and "junk" for anything serde_json rejects. format says where
\* the usage object sits: "message" (under message, with message.model) or
\* "simple" (at the top level, with a top-level model); "none" is an object
\* without usage. Every field is an Option; the timestamp is a local time
\* with its UTC offset in hours.
JsonLine(format, timestamp, model, input_tokens, output_tokens, cc, cr, cost_usd) ==
    [kind |-> "json", format |-> format, timestamp |-> timestamp, model |-> model,
     input_tokens |-> input_tokens, output_tokens |-> output_tokens,
     cache_creation_input_tokens |-> cc, cache_read_input_tokens |-> cr,
     cost_usd |-> cost_usd]

Rfc3339(time, offset) == [time |-> time, offset |-> offset]

\* the line of the loader tests that carries every field of e
RecordLine(e) ==
    JsonLine("simple", <<Rfc3339(e.timestamp, 0)>>, <<e.model>>,
             <<e.input_tokens>>, <<e.output_tokens>>,
             <<e.cache_creation_input_tokens>>, <<e.cache_read_input_tokens>>,
             <<e.cost_usd>>)

BlankLine ==
    [kind |-> "blank", format |-> "none", timestamp |-> <<>>, model |-> <<>>,
     input_tokens |-> <<>>, output_tokens |-> <<>>,
     cache_creation_input_tokens |-> <<>>, cache_read_input_tokens |-> <<>>,
     cost_usd |-> <<>>]

JunkLine ==
    [kind |-> "junk", format |-> "none", timestamp |-> <<>>, model |-> <<>>,
     input_tokens |-> <<>>, output_tokens |-> <<>>,
     cache_creation_input_tokens |-> <<>>, cache_read_input_tokens |-> <<>>,
     cost_usd |-> <<>>]

\* loader.rs 150-156: parse_from_rfc3339, then with_timezone(&Utc)
parse_timestamp(line) ==
    IF line.timestamp = <<>> THEN <<>>
    ELSE <<line.timestamp[1].time - line.timestamp[1].offset * Hour>>

\* Option::unwrap_or / Result::unwrap_or
unwrap_or(opt, default) == IF opt = <<>> THEN default ELSE opt[1]

Err == [ok |-> FALSE, entry |-> UsageEntry(0, "", 0, 0, 0, 0, 0)]

Ok(entry) == [ok |-> TRUE, entry |-> entry]

\* loader.rs 84-149
parse_line(line) ==
    IF line.kind # "json" THEN Err
    ELSE IF line.format = "message"
    THEN IF \/ parse_timestamp(line) = <<>>
            \/ line.input_tokens = <<>>
            \/ line.output_tokens = <<>>
         THEN Err
         ELSE LET model == unwrap_or(line.model, "unknown")
                  input_tokens == line.input_tokens[1]
                  output_tokens == line.output_tokens[1]
                  cc == unwrap_or(line.cache_creation_input_tokens, 0)
                  cr == unwrap_or(line.cache_read_input_tokens, 0)
                  cost_usd ==
                      IF line.cost_usd # <<>> THEN line.cost_usd[1]
                      ELSE unwrap_or(calculate_cost(model, input_tokens,
                                                    output_tokens, cc, cr), 0)
              IN  Ok(UsageEntry(parse_timestamp(line)[1], model, input_tokens,
                                output_tokens, cc, cr, cost_usd))
    ELSE IF line.format = "simple"
    THEN IF \/ parse_timestamp(line) = <<>>
            \/ line.model = <<>>
            \/ line.input_tokens = <<>>
            \/ line.output_tokens = <<>>
         THEN Err
         ELSE Ok(UsageEntry(parse_timestamp(line)[1], line.model[1],
                            line.input_tokens[1], line.output_tokens[1],
                            unwrap_or(line.cache_creation_input_tokens, 0),
                            unwrap_or(line.cache_read_input_tokens, 0),
                            unwrap_or(line.cost_usd, 0)))
    ELSE Err

\* nodes of the file system
FileNode(ext, readable, lines) ==
    [kind |-> "file", ext |-> ext, readable |-> readable, lines |-> lines,
     items |-> <<>>]
DirNode(readable, items) ==
    [kind |-> "dir", ext |-> "", readable |-> readable, lines |-> <<>>,
     items |-> items]
\* a directory entry the read_dir iterator fails to yield
BadEntry ==
    [kind |-> "bad_entry", ext |-> "", readable |-> FALSE, lines |-> <<>>,
     items |-> <<>>]
\* a path that does not exist
Missing ==
    [kind |-> "missing", ext |-> "", readable |-> FALSE, lines |-> <<>>,
     items |-> <<>>]

RECURSIVE ReadLines(_, _)
ReadLines(lines, acc) ==
    IF lines = <<>> THEN acc
    ELSE LET line == lines[1] IN
         IF line.kind = "blank"
         THEN ReadLines(Tail(lines), acc)
         ELSE LET r == parse_line(line) IN
              IF r.ok
              THEN ReadLines(Tail(lines), Append(acc, r.entry))
              ELSE ReadLines(Tail(lines), acc)

load_from_file(path) ==
    IF path.kind = "file" /\ path.readable
    THEN [ok |-> TRUE, entries |-> ReadLines(path.lines, <<>>)]
    ELSE [ok |-> FALSE, entries |-> <<>>]

\* entries.sort_by(|a, b| a.timestamp().cmp(&b.timestamp())): a stable sort
RECURSIVE InsertByTimestamp(_, _)
InsertByTimestamp(sorted, e) ==
    IF sorted = <<>> THEN <<e>>
    ELSE IF sorted[Len(sorted)].timestamp <= e.timestamp
         THEN Append(sorted, e)
         ELSE Append(InsertByTimestamp(SubSeq(sorted, 1, Len(sorted) - 1), e),
                     sorted[Len(sorted)])

RECURSIVE sort_by_timestamp(_)
sort_by_timestamp(es) ==
    IF es = <<>> THEN <<>>
    ELSE InsertByTimestamp(sort_by_timestamp(SubSeq(es, 1, Len(es) - 1)),
                           es[Len(es)])

\* The for loop of load_from_directory_recursive over the items of one
\* directory, from item i on; acc is the caller's vector, which keeps what
\* was appended to it even when the walk fails.
RECURSIVE WalkItems(_, _, _)
load_from_directory_recursive(dir, acc) ==
    IF dir.kind = "dir" /\ dir.readable
    THEN WalkItems(dir.items, 1, acc)
    ELSE [ok |-> FALSE, entries |-> acc]

WalkItems(items, i, acc) ==
    IF i > Len(items) THEN [ok |-> TRUE, entries |-> acc]
    ELSE LET item == items[i] IN
         IF item.kind = "bad_entry"
         THEN [ok |-> FALSE, entries |-> acc]
         ELSE IF item.kind = "file"
         THEN IF item.ext = "jsonl"
              THEN LET r == load_from_file(item) IN
                   IF r.ok
                   THEN WalkItems(items, i + 1, acc \o r.entries)
                   ELSE WalkItems(items, i + 1, acc)
              ELSE WalkItems(items, i + 1, acc)
         ELSE IF item.kind = "dir"
         THEN LET r == load_from_directory_recursive(item, acc) IN
              WalkItems(items, i + 1, r.entries)
         ELSE WalkItems(items, i + 1, acc)

load_from_directory(dir_path) ==
    LET r == load_from_directory_recursive(dir_path, <<>>) IN
    IF r.ok
    THEN [ok |-> TRUE, entries |-> sort_by_timestamp(r.entries)]
    ELSE [ok |-> FALSE, entries |-> <<>>]

\* ------------------------------------------------ inputs of the UsageMonitor
MonitorTimes ==
    { BaseTime, BaseTime + 30 * Minute, BaseTime + DefaultSessionHours * Hour }

MonitorEntries == { e \in Entries : e.timestamp \in MonitorTimes }

Lines == { RecordLine(e) : e \in MonitorEntries } \cup { BlankLine, JunkLine }

\* what load_data may be pointed at
FilePaths ==
    { FileNode("jsonl", TRUE, ls) : ls \in SeqsUpTo(Lines, MaxFileLines) }
        \cup { FileNode("jsonl", FALSE, <<>>), Missing }

DirLeaves ==
    { FileNode("jsonl", TRUE,
               <<RecordLine(OpusEntry(BaseTime + DefaultSessionHours * Hour)),
                 JunkLine,
                 RecordLine(SonnetEntry(BaseTime))>>),
      FileNode("jsonl", TRUE, <<RecordLine(SonnetEntry(BaseTime + 30 * Minute))>>),
      FileNode("jsonl", FALSE, <<>>),
      FileNode("txt", TRUE, <<RecordLine(OpusEntry(BaseTime))>>),
      BadEntry }

SubDirs ==
    { DirNode(TRUE, items) : items \in SeqsUpTo(DirLeaves, 1) }
        \cup { DirNode(FALSE, <<>>) }

\* what load_directory may be pointed at
DirPaths ==
    { DirNode(TRUE, items) : items \in SeqsUpTo(DirLeaves \cup SubDirs, MaxDirItems) }
        \cup { DirNode(FALSE, <<>>), Missing }

\* ------------------------------------------------------- rational numbers
\* f64 quantities that are quotients are kept as exact fractions in lowest
\* terms with a positive denominator, so equal values are equal records.
Abs(x) == IF x >= 0 THEN x ELSE 0 - x

RECURSIVE GCD(_, _)
GCD(a, b) == IF b = 0 THEN a ELSE GCD(b, a % b)

Frac(n, d) ==
    LET g == GCD(Abs(n), Abs(d))
        sgn == IF d < 0 THEN 0 - 1 ELSE 1
    IN  [num |-> sgn * (n \div g), den |-> sgn * (d \div g)]

FracOfInt(n) == [num |-> n, den |-> 1]
LCM(a, b) == (a \div GCD(a, b)) * b
FracAdd(x, y) ==
    LET l == LCM(x.den, y.den)
    IN  Frac(x.num * (l \div x.den) + y.num * (l \div y.den), l)
FracMul(x, y) ==
    LET a == Frac(x.num, y.den)
        b == Frac(y.num, x.den)
    IN  Frac(a.num * b.num, a.den * b.den)
FracDiv(x, y) == FracMul(x, Frac(y.den, y.num))
FracLeq(x, y) ==
    LET l == LCM(x.den, y.den)
    IN  x.num * (l \div x.den) <= y.num * (l \div y.den)
FracLt(x, y) == FracLeq(x, y) /\ x # y
FracFloor(x) == x.num \div x.den

\* ------------------------------------------------------------ ClaudePlan
ClaudePlans == { "Pro", "Max5", "Max20" }

max_tokens(plan) ==
    CASE plan = "Pro" -> 44000
      [] plan = "Max5" -> 220000
      [] plan = "Max20" -> 880000

\* -------------------------------------------------------- PricingProvider
\* model weights are kept in units of 1/WeightScale, so 0.2 is 1
WeightScale == 5

get_model_weight_unit(model) == WeightScale

\* pricing.rs 118-128, in units of 1/WeightScale
get_model_weight(model) ==
    CASE model \in {"claude-3-opus-20240229", "claude-opus-4-20250514"} -> 25
      [] model \in {"claude-3-sonnet-20240229", "claude-3-5-sonnet-20240620",
                    "claude-3-5-sonnet-20241022", "claude-sonnet-4-20250514"} -> 5
      [] model \in {"claude-3-haiku-20240307", "claude-3-5-haiku-20241022"} -> 1
      [] OTHER -> 5

\* ------------------------------------------------------------- Calculator
UsageEntry_total_tokens(entry) == entry.input_tokens + entry.output_tokens

TokenCounts_total_tokens(tc) == tc.input_tokens + tc.output_tokens

TokenCounts_all_tokens(tc) ==
    tc.input_tokens + tc.output_tokens
        + tc.cache_creation_input_tokens + tc.cache_read_input_tokens

\* in units of 1/WeightScale token
calculate_weighted_tokens(entry, model_weight) ==
    UsageEntry_total_tokens(entry) * model_weight

\* f64 durations of a block, in minutes (duration_minutes is in sixtieths)
SessionBlock_duration_minutes(block) == Frac(block.duration_minutes, SecondsPerMinute)

\* "x as u64" truncates toward zero and saturates at 0 for negative x
as_u64(x) == IF x.num < 0 THEN 0 ELSE x.num \div x.den

\* "x as i64" truncates toward zero
as_i64(x) == IF x.num < 0 THEN 0 - ((0 - x.num) \div x.den) ELSE x.num \div x.den

BurnRate_new(tokens_per_minute, cost_per_hour) ==
    [tokens_per_minute |-> tokens_per_minute, cost_per_hour |-> cost_per_hour]

calculate_burn_rate_all_tokens(block) ==
    IF block.entries = <<>> \/ block.duration_minutes = 0
    THEN <<>>
    ELSE LET total_tokens == FracOfInt(TokenCounts_all_tokens(block.token_counts))
             tokens_per_minute ==
                 FracDiv(total_tokens, SessionBlock_duration_minutes(block))
             cost_per_hour ==
                 FracMul(FracDiv(FracOfInt(block.cost_usd),
                                 SessionBlock_duration_minutes(block)),
                         FracOfInt(MinutesPerHour))
         IN  <<BurnRate_new(tokens_per_minute, cost_per_hour)>>

\* calculator.rs 11-21; None is <<>>, Some(x) is <<x>>
calculate_burn_rate(block) ==
    IF block.entries = <<>> \/ block.duration_minutes = 0
    THEN <<>>
    ELSE LET total_tokens == FracOfInt(TokenCounts_total_tokens(block.token_counts))
             tokens_per_minute ==
                 FracDiv(total_tokens, SessionBlock_duration_minutes(block))
             cost_per_hour ==
                 FracMul(FracDiv(FracOfInt(block.cost_usd),
                                 SessionBlock_duration_minutes(block)),
                         FracOfInt(MinutesPerHour))
         IN  <<BurnRate_new(tokens_per_minute, cost_per_hour)>>

\* data_structures.rs 264-278
UsageProjection_new(current_tokens, current_cost, add_tokens, add_cost) ==
    [current_tokens |-> current_tokens,
     current_cost |-> current_cost,
     projected_additional_tokens |-> add_tokens,
     projected_additional_cost |-> add_cost,
     projected_total_tokens |-> current_tokens + add_tokens,
     projected_total_cost |-> FracAdd(current_cost, add_cost)]

\* calculator.rs 23-50
project_block_usage(block, current_time) ==
    IF block.entries = <<>> \/ current_time >= block.end_time
    THEN <<>>
    ELSE LET burn_rate == calculate_burn_rate(block) IN
         IF burn_rate = <<>>
         THEN <<>>
         ELSE LET current_tokens == TokenCounts_total_tokens(block.token_counts)
                  current_cost == FracOfInt(block.cost_usd)
                  remaining_duration == block.end_time - current_time
                  remaining_minutes ==
                      Frac(num_seconds(remaining_duration), SecondsPerMinute)
                  remaining_hours ==
                      FracDiv(remaining_minutes, FracOfInt(MinutesPerHour))
                  projected_additional_tokens ==
                      as_u64(FracMul(burn_rate[1].tokens_per_minute, remaining_minutes))
                  projected_additional_cost ==
                      FracMul(burn_rate[1].cost_per_hour, remaining_hours)
              IN  <<UsageProjection_new(current_tokens, current_cost,
                                        projected_additional_tokens,
                                        projected_additional_cost)>>

\* calculator.rs 60-86: the for loop, from block i on, total_tokens so far
RECURSIVE HourlyLoop(_, _, _, _)
HourlyLoop(bs, i, current_time, total_tokens) ==
    IF i > Len(bs) THEN total_tokens
    ELSE LET block == bs[i] IN
         IF block.entries = <<>>
         THEN HourlyLoop(bs, i + 1, current_time, total_tokens)
         ELSE LET one_hour_ago == current_time - Hour
                  block_start == block.entries[1].timestamp
                  block_end == block.entries[Len(block.entries)].timestamp
              IN  IF block_end < one_hour_ago \/ block_start > current_time
                  THEN HourlyLoop(bs, i + 1, current_time, total_tokens)
                  ELSE LET overlap_start == IF block_start >= one_hour_ago
                                            THEN block_start ELSE one_hour_ago
                           overlap_end == IF block_end <= current_time
                                          THEN block_end ELSE current_time
                           overlap_duration ==
                               Frac(num_seconds(overlap_end - overlap_start),
                                    SecondsPerMinute)
                           session_tokens ==
                               FracOfInt(TokenCounts_total_tokens(block.token_counts))
                           total_session_duration ==
                               SessionBlock_duration_minutes(block)
                       IN  IF overlap_duration.num > 0 /\ total_session_duration.num > 0
                           THEN HourlyLoop(bs, i + 1, current_time,
                                    FracAdd(total_tokens,
                                        FracMul(session_tokens,
                                            FracDiv(overlap_duration,
                                                    total_session_duration))))
                           ELSE HourlyLoop(bs, i + 1, current_time, total_tokens)

calculate_hourly_burn_rate_undivided(bs, current_time) ==
    HourlyLoop(bs, 1, current_time, FracOfInt(0))

\* calculator.rs 52-89
calculate_hourly_burn_rate(bs, current_time) ==
    FracDiv(HourlyLoop(bs, 1, current_time, FracOfInt(0)),
            FracOfInt(MinutesPerHour))

\* calculator.rs 111-114: filter_map over calculate_burn_rate
RECURSIVE DefinedBurnRates(_)
DefinedBurnRates(bs) ==
    IF bs = <<>> THEN <<>>
    ELSE calculate_burn_rate(bs[1]) \o DefinedBurnRates(Tail(bs))

RECURSIVE FracSum(_, _)
FracSum(xs, field) ==
    IF xs = <<>> THEN FracOfInt(0)
    ELSE FracAdd(xs[1][field], FracSum(Tail(xs), field))

RECURSIVE IntSum(_)
IntSum(xs) == IF xs = <<>> THEN 0 ELSE xs[1] + IntSum(Tail(xs))

\* total tokens over total minutes instead of the mean of the rates
calculate_average_burn_rate_weighted(bs) ==
    LET used == SelectSeq(bs, LAMBDA b : calculate_burn_rate(b) # <<>>) IN
    IF used = <<>>
    THEN <<>>
    ELSE LET minutes ==
                 Frac(IntSum([i \in 1..Len(used) |-> used[i].duration_minutes]),
                      SecondsPerMinute)
             tokens ==
                 IntSum([i \in 1..Len(used) |->
                             TokenCounts_total_tokens(used[i].token_counts)])
             cost == IntSum([i \in 1..Len(used) |-> used[i].cost_usd])
         IN  IF minutes.num = 0 THEN <<>>
             ELSE <<BurnRate_new(FracDiv(FracOfInt(tokens), minutes),
                                 FracMul(FracDiv(FracOfInt(cost), minutes),
                                         FracOfInt(MinutesPerHour)))>>

\* calculator.rs 106-130
calculate_average_burn_rate(bs) ==
    IF bs = <<>>
    THEN <<>>
    ELSE LET burn_rates == DefinedBurnRates(bs) IN
         IF burn_rates = <<>>
         THEN <<>>
         ELSE LET avg_tokens_per_minute ==
                      FracDiv(FracSum(burn_rates, "tokens_per_minute"),
                              FracOfInt(Len(burn_rates)))
                  avg_cost_per_hour ==
                      FracDiv(FracSum(burn_rates, "cost_per_hour"),
                              FracOfInt(Len(burn_rates)))
              IN  <<BurnRate_new(avg_tokens_per_minute, avg_cost_per_hour)>>

\* calculator.rs 143-157; the Duration is in ticks
calculate_time_to_limit(current_tokens, token_limit, current_burn_rate) ==
    IF current_tokens >= token_limit \/ current_burn_rate.num <= 0
    THEN <<>>
    ELSE LET remaining_tokens == token_limit - current_tokens
             minutes_to_limit == FracDiv(FracOfInt(remaining_tokens), current_burn_rate)
         IN  <<as_i64(minutes_to_limit) * Minute>>

\* ---------------------------------------------------------------- variables
VARIABLES
    session_duration,   \* SessionIdentifier.session_duration
    entries,            \* the slice passed to identify_blocks
    idx,                \* position of the for loop in entries (1-based)
    blocks,             \* identify_blocks: the local vector blocks
    current_block,      \* identify_blocks: the local Option current_block
    pc,                 \* "start", "loop", "done"
    usage_entries,      \* UsageMonitor.usage_entries
    session_blocks,     \* UsageMonitor.session_blocks
    last_op,            \* the UsageMonitor operation that ran last
    last_result,        \* what it returned: "ok" or "err"
    calc,               \* the last Calculator call: function, arguments, result
    lock_holders,       \* App.state: the threads inside the Mutex
    bg_pc,              \* position of the background refresh task
    fg_pc               \* position of the foreground render/event loop

scan_vars == <<entries, idx, blocks, current_block, pc>>
monitor_vars == <<usage_entries, session_blocks, last_op, last_result>>
calc_vars == <<calc>>
app_vars == <<lock_holders, bg_pc, fg_pc>>
vars == <<session_duration, entries, idx, blocks, current_block, pc,
          usage_entries, session_blocks, last_op, last_result,
          calc, lock_holders, bg_pc, fg_pc>>

NoCall == [fn |-> "none", args |-> <<>>, result |-> <<>>]

\* no Calculator call made, no application task started
Idle ==
    /\ calc = NoCall
    /\ lock_holders = {}
    /\ bg_pc = "sleep"
    /\ fg_pc = "idle"

\* UsageMonitor::new
UsageMonitor_new ==
    /\ usage_entries = <<>>
    /\ session_blocks = <<>>
    /\ last_op = "new"
    /\ last_result = "ok"

\* --------------------------------------- identify_blocks, one loop step each
Init ==
    /\ session_duration \in Durations
    /\ entries \in Inputs
    /\ idx = 1
    /\ blocks = <<>>
    /\ current_block = <<>>
    /\ pc = "start"
    /\ UsageMonitor_new
    /\ Idle

\* identifier.rs 20-22: the early return on an empty slice
ReturnEmpty ==
    /\ pc = "start"
    /\ entries = <<>>
    /\ pc' = "done"
    /\ blocks' = <<>>
    /\ UNCHANGED <<session_duration, entries, idx, current_block>>
    /\ UNCHANGED <<monitor_vars, calc_vars, app_vars>>

\* identifier.rs 27-40: one iteration of the for loop
LoopBody ==
    /\ pc \in {"start", "loop"}
    /\ idx <= Len(entries)
    /\ LET st == ScanEntry(session_duration,
                           [blocks |-> blocks, current_block |-> current_block],
                           entries[idx])
       IN  /\ blocks' = st.blocks
           /\ current_block' = st.current_block
    /\ idx' = idx + 1
    /\ pc' = "loop"
    /\ UNCHANGED <<session_duration, entries>>
    /\ UNCHANGED <<monitor_vars, calc_vars, app_vars>>

\* identifier.rs 42-46: push the last block and return
PushLast ==
    /\ pc = "loop"
    /\ idx > Len(entries)
    /\ blocks' = blocks \o current_block
    /\ current_block' = <<>>
    /\ pc' = "done"
    /\ UNCHANGED <<session_duration, entries, idx>>
    /\ UNCHANGED <<monitor_vars, calc_vars, app_vars>>

Next == ReturnEmpty \/ LoopBody \/ PushLast

Spec == Init /\ [][Next]_vars

\* the stepwise scan returns what the function returns
ScanMatchesFunction ==
    pc = "done" => blocks = identify_blocks(session_duration, entries)

\* ------------------------------------------------- helpers for the properties
\* every block that exists: the closed ones followed by the current one
AllBlocks == blocks \o current_block

RECURSIVE ConcatEntries(_)
ConcatEntries(bs) ==
    IF bs = <<>> THEN <<>> ELSE bs[1].entries \o ConcatEntries(Tail(bs))

RECURSIVE SumOf(_, _)
SumOf(es, field) ==
    IF es = <<>> THEN 0 ELSE es[1][field] + SumOf(Tail(es), field)

Timestamps(es) == [i \in 1..Len(es) |-> es[i].timestamp]

Max(a, b) == IF a >= b THEN a ELSE b

\* the loop is about to process entries[idx] with a block open
AtEntryWithOpenBlock ==
    /\ pc = "loop"
    /\ idx <= Len(entries)
    /\ current_block # <<>>

\* the step closed the open block and opened a new one holding entries[idx]
ClosedAndOpened ==
    /\ blocks' = Append(blocks, current_block[1])
    /\ current_block' # <<>>
    /\ current_block'[1].entries = <<entries[idx]>>

\* ---------------------------------------------------------------------- C1
\* C1: for a non-empty input sorted by timestamp, the entries of the returned
\* blocks, concatenated in block order, are the input sequence itself.
PartitionPreserved ==
    (pc = "done" /\ entries # <<>> /\ IsSorted(entries))
        => ConcatEntries(blocks) = entries

PartitionPreservedWitness ==
    /\ pc = "done"
    /\ IsSorted(entries)
    /\ Len(entries) = 3
    /\ Len(blocks) = 2
    /\ Len(blocks[1].entries) = 2

\* ---------------------------------------------------------------------- C2
\* C2: every block has end_time = start_time + the configured window length
\* whatever it holds, and a step that appends an entry to the open block
\* leaves that block's start_time and end_time as they were.
FixedWindow ==
    /\ [](\A i \in DOMAIN AllBlocks :
              AllBlocks[i].end_time = AllBlocks[i].start_time + session_duration)
    /\ [][(/\ current_block # <<>>
           /\ current_block' # <<>>
           /\ Len(current_block'[1].entries) = Len(current_block[1].entries) + 1)
          => (/\ current_block'[1].start_time = current_block[1].start_time
              /\ current_block'[1].end_time = current_block[1].end_time)]_vars

FixedWindowWitness ==
    /\ pc = "done"
    /\ session_duration = Hour
    /\ Len(blocks) = 1
    /\ Len(blocks[1].entries) = 3
    /\ blocks[1].entries[1].timestamp # blocks[1].start_time

\* ---------------------------------------------------------------------- C3
\* C3: scanning sorted entries, an entry whose timestamp is at or after the
\* open block's end_time closes that block and opens a new one; entries at T
\* and T+5h, T on the hour, under the 5-hour window give exactly two blocks.
BoundaryClosesBlock ==
    /\ [][(/\ AtEntryWithOpenBlock
           /\ IsSorted(entries)
           /\ entries[idx].timestamp >= current_block[1].end_time)
          => ClosedAndOpened]_vars
    /\ []((/\ pc = "done"
           /\ session_duration = DefaultSessionHours * Hour
           /\ Len(entries) = 2
           /\ entries[1].timestamp % Hour = 0
           /\ entries[2].timestamp = entries[1].timestamp + DefaultSessionHours * Hour)
          => Len(blocks) = 2)

\* the boundary rule alone fires: the gap to the previous entry is 4h30
BoundaryClosesBlockWitness ==
    /\ pc = "done"
    /\ session_duration = DefaultSessionHours * Hour
    /\ Timestamps(entries) =
           <<BaseTime + 30 * Minute, BaseTime + DefaultSessionHours * Hour>>
    /\ Len(blocks) = 2

\* ---------------------------------------------------------------------- C4
\* C4: for sorted input, an entry at least one window length after the entry
\* before it starts a new block; entries at T and T+6h under the 5-hour
\* window give exactly two blocks of one entry each.
GapSeparates ==
    /\ [][(/\ AtEntryWithOpenBlock
           /\ IsSorted(entries)
           /\ idx >= 2
           /\ entries[idx].timestamp - entries[idx - 1].timestamp >= session_duration)
          => ClosedAndOpened]_vars
    /\ []((/\ pc = "done"
           /\ session_duration = DefaultSessionHours * Hour
           /\ Len(entries) = 2
           /\ entries[2].timestamp = entries[1].timestamp + 6 * Hour)
          => (/\ Len(blocks) = 2
              /\ Len(blocks[1].entries) = 1
              /\ Len(blocks[2].entries) = 1))

GapSeparatesWitness ==
    /\ pc = "done"
    /\ session_duration = DefaultSessionHours * Hour
    /\ Timestamps(entries) = <<BaseTime, BaseTime + 6 * Hour>>
    /\ Len(blocks) = 2

\* ---------------------------------------------------------------------- C5
\* C5: for sorted input under the 5-hour window, when every timestamp is
\* before (first timestamp rounded down to the hour) + 5h, the result is one
\* block holding all the entries in order.
SingleBlockWithinWindow ==
    (/\ pc = "done"
     /\ entries # <<>>
     /\ IsSorted(entries)
     /\ session_duration = DefaultSessionHours * Hour
     /\ \A i \in DOMAIN entries :
            entries[i].timestamp
                < round_to_hour(entries[1].timestamp) + DefaultSessionHours * Hour)
        => (/\ Len(blocks) = 1
            /\ blocks[1].entries = entries)

SingleBlockWithinWindowWitness ==
    /\ pc = "done"
    /\ session_duration = DefaultSessionHours * Hour
    /\ entries = FiveHourly
    /\ Len(blocks) = 1
    /\ Len(blocks[1].entries) = 5

\* ---------------------------------------------------------------------- C6
\* C6: an empty input gives an empty result, and on any input no block is
\* ever empty.
NoEmptyBlocks ==
    /\ (pc = "done" /\ entries = <<>>) => blocks = <<>>
    /\ \A i \in DOMAIN AllBlocks : AllBlocks[i].entries # <<>>

NoEmptyBlocksWitness ==
    /\ pc = "done"
    /\ Len(entries) = 3
    /\ Len(blocks) = 3

\* ---------------------------------------------------------------------- C7
\* C7: after every append the running token counts and the running cost of
\* a block are the sums of those fields over the entries the block holds.
RunningTotals ==
    \A i \in DOMAIN AllBlocks :
        LET b == AllBlocks[i] IN
        /\ b.token_counts.input_tokens = SumOf(b.entries, "input_tokens")
        /\ b.token_counts.output_tokens = SumOf(b.entries, "output_tokens")
        /\ b.token_counts.cache_creation_input_tokens
               = SumOf(b.entries, "cache_creation_input_tokens")
        /\ b.token_counts.cache_read_input_tokens
               = SumOf(b.entries, "cache_read_input_tokens")
        /\ b.cost_usd = SumOf(b.entries, "cost_usd")

RunningTotalsWitness ==
    /\ pc = "loop"
    /\ current_block # <<>>
    /\ Len(current_block[1].entries) = 2
    /\ current_block[1].entries[1].model # current_block[1].entries[2].model
    /\ current_block[1].token_counts.cache_creation_input_tokens = 25

\* ---------------------------------------------------------------------- C8
\* C8: for every non-empty block, after every append, duration_minutes is
\* the span from the first to the last entry floored to a minimum of one
\* minute, hence at least one minute.
DurationFlooredAtOneMinute ==
    IsSorted(entries) =>
        \A i \in DOMAIN AllBlocks :
            LET b == AllBlocks[i] IN
            b.entries # <<>> =>
                /\ b.duration_minutes >= SecondsPerMinute
                /\ b.duration_minutes =
                       Max(SecondsPerMinute,
                           num_seconds(b.entries[Len(b.entries)].timestamp
                                           - b.entries[1].timestamp))

\* --------------------------------------------------------------------- C17
\* C17: every block's start_time is the timestamp of its first entry rounded
\* down to the top of the hour, so start_time <= first timestamp <
\* start_time + 1 hour.
StartIsHourOfFirstEntry ==
    \A i \in DOMAIN AllBlocks :
        LET b == AllBlocks[i] IN
        b.entries # <<>> =>
            /\ b.start_time % Hour = 0
            /\ b.start_time <= b.entries[1].timestamp
            /\ b.entries[1].timestamp < b.start_time + Hour

StartIsHourOfFirstEntryWitness ==
    /\ pc = "done"
    /\ Len(blocks) = 2
    /\ blocks[1].entries[1].timestamp = BaseTime + 30 * Minute
    /\ blocks[1].start_time = BaseTime
    /\ blocks[2].start_time = BaseTime + DefaultSessionHours * Hour

\* --------------------------------------------------------------------- C18
\* The scan of es reaches entry i with a block open, the entry is strictly
\* before that block's end_time, and its gap to the block's last entry is at
\* least the window: the idle-gap rule opens a block the boundary rule
\* would not.
GapRuleFiresAlone(d, es, i) ==
    LET st == ScanFrom(d, [blocks |-> <<>>, current_block |-> <<>>],
                       SubSeq(es, 1, i - 1), 1)
    IN  /\ st.current_block # <<>>
        /\ LET b == st.current_block[1] IN
           /\ es[i].timestamp < b.end_time
           /\ es[i].timestamp - b.entries[Len(b.entries)].timestamp >= d

\* C18 (as claimed): there is a timestamp-ordered entry sequence in which
\* an entry strictly before the current block's end_time still opens a new
\* block because its gap to the preceding entry of that block is at least
\* the window length.
IdleGapRuleIndependentOnSorted ==
    \E es \in Inputs :
        /\ IsSorted(es)
        /\ \E i \in 2..Len(es) : GapRuleFiresAlone(session_duration, es, i)

\* C18 (amended): on timestamp-ordered input an entry whose gap to the
\* preceding entry of the open block is at least the window length is always
\* at or after that block's end_time, so the idle-gap rule never opens a
\* block that the boundary rule would not.
IdleGapImpliesBoundary ==
    [][(/\ AtEntryWithOpenBlock
        /\ IsSorted(entries)
        /\ entries[idx].timestamp
               - current_block[1].entries[Len(current_block[1].entries)].timestamp
               >= session_duration)
       => entries[idx].timestamp >= current_block[1].end_time]_vars

IdleGapImpliesBoundaryWitness ==
    /\ pc = "loop"
    /\ IsSorted(entries)
    /\ idx = 3
    /\ entries[2].timestamp - entries[1].timestamp >= session_duration
    /\ Len(blocks) = 1
    /\ current_block # <<>>
    /\ current_block[1].entries = <<entries[2]>>

\* ------------------------------------------------------------- UsageMonitor
MonitorInit ==
    /\ session_duration = DefaultSessionHours * Hour
    /\ entries = <<>>
    /\ idx = 1
    /\ blocks = <<>>
    /\ current_block = <<>>
    /\ pc = "start"
    /\ UsageMonitor_new
    /\ Idle

\* monitor.rs 232-234
recalculate_blocks(es) == identify_blocks(session_duration, es)

\* monitor.rs 31-35; the ? returns before usage_entries is assigned
load_data ==
    \E path \in FilePaths :
        LET r == load_from_file(path) IN
        /\ last_op' = "load_data"
        /\ IF r.ok
           THEN /\ usage_entries' = r.entries
                /\ session_blocks' = recalculate_blocks(r.entries)
                /\ last_result' = "ok"
           ELSE /\ last_result' = "err"
                /\ UNCHANGED <<usage_entries, session_blocks>>
        /\ UNCHANGED <<session_duration, scan_vars, calc_vars, app_vars>>

load_directory_clears_on_error ==
    \E dir_path \in DirPaths :
        LET r == load_from_directory(dir_path) IN
        /\ last_op' = "load_directory"
        /\ usage_entries' = r.entries
        /\ session_blocks' = recalculate_blocks(r.entries)
        /\ last_result' = IF r.ok THEN "ok" ELSE "err"
        /\ UNCHANGED <<session_duration, scan_vars, calc_vars, app_vars>>

\* monitor.rs 37-41
load_directory ==
    \E dir_path \in DirPaths :
        LET r == load_from_directory(dir_path) IN
        /\ last_op' = "load_directory"
        /\ IF r.ok
           THEN /\ usage_entries' = r.entries
                /\ session_blocks' = recalculate_blocks(r.entries)
                /\ last_result' = "ok"
           ELSE /\ last_result' = "err"
                /\ UNCHANGED <<usage_entries, session_blocks>>
        /\ UNCHANGED <<session_duration, scan_vars, calc_vars, app_vars>>

\* monitor.rs 43-48
add_entry ==
    \E entry \in MonitorEntries :
        /\ Len(usage_entries) < MaxEntries
        /\ LET sorted == sort_by_timestamp(Append(usage_entries, entry)) IN
           /\ usage_entries' = sorted
           /\ session_blocks' = recalculate_blocks(sorted)
        /\ last_op' = "add_entry"
        /\ last_result' = "ok"
        /\ UNCHANGED <<session_duration, scan_vars, calc_vars, app_vars>>

clear_data_keeps_blocks ==
    /\ usage_entries' = <<>>
    /\ last_op' = "clear_data"
    /\ last_result' = "ok"
    /\ UNCHANGED <<session_blocks, session_duration, scan_vars, calc_vars, app_vars>>

\* monitor.rs 215-218
clear_data ==
    /\ usage_entries' = <<>>
    /\ session_blocks' = <<>>
    /\ last_op' = "clear_data"
    /\ last_result' = "ok"
    /\ UNCHANGED <<session_duration, scan_vars, calc_vars, app_vars>>

MonitorNext == load_data \/ load_directory \/ add_entry \/ clear_data

SpecMonitor == MonitorInit /\ [][MonitorNext]_vars

\* monitor.rs 224-226
entry_count == Len(usage_entries)

RECURSIVE SumOfSizes(_)
SumOfSizes(bs) ==
    IF bs = <<>> THEN 0 ELSE Len(bs[1].entries) + SumOfSizes(Tail(bs))

\* ---------------------------------------------------------------------- C9
\* C9: after any sequence of load_data, load_directory, add_entry and
\* clear_data, the entries of every session block are in non-decreasing
\* timestamp order.
MonitorBlockEntriesOrdered ==
    \A i \in DOMAIN session_blocks : IsSorted(session_blocks[i].entries)

\* --------------------------------------------------------------------- C10
\* C10: after each monitor mutation session_blocks is identify_blocks of the
\* current usage_entries, its block entries partition usage_entries,
\* entry_count is the sum of the block sizes, and after clear_data both are
\* empty.
MonitorBlocksDerived ==
    /\ session_blocks = identify_blocks(DefaultSessionHours * Hour, usage_entries)
    /\ ConcatEntries(session_blocks) = usage_entries
    /\ entry_count = SumOfSizes(session_blocks)
    /\ last_op = "clear_data" => (usage_entries = <<>> /\ session_blocks = <<>>)

MonitorBlocksDerivedWitness ==
    /\ last_op = "add_entry"
    /\ Len(usage_entries) = 3
    /\ Len(session_blocks) = 2
    /\ Len(session_blocks[1].entries) = 2

\* ----------------------------------------------------- UsageMonitor queries
RECURSIVE SumWeighted(_)
SumWeighted(es) ==
    IF es = <<>> THEN 0
    ELSE calculate_weighted_tokens(es[1], get_model_weight(es[1].model))
             + SumWeighted(Tail(es))

get_total_weighted_tokens_current_block ==
    IF session_blocks = <<>> THEN 0
    ELSE SumWeighted(session_blocks[Len(session_blocks)].entries)

\* monitor.rs 169-178, in units of 1/WeightScale token
get_total_weighted_tokens == SumWeighted(usage_entries)

\* monitor.rs 192-195
get_plan_usage_percentage(plan) ==
    Frac(get_total_weighted_tokens * 100, WeightScale * max_tokens(plan))

\* monitor.rs 146-152: the for loop over usage_entries; the HashMap is a
\* function from the models seen so far to (tokens, cost)
RECURSIVE BreakdownLoop(_, _)
BreakdownLoop(es, breakdown) ==
    IF es = <<>> THEN breakdown
    ELSE LET entry == es[1]
             stats == IF entry.model \in DOMAIN breakdown
                      THEN breakdown[entry.model] ELSE <<0, 0>>
             updated == <<stats[1] + UsageEntry_total_tokens(entry),
                          stats[2] + entry.cost_usd>>
         IN  BreakdownLoop(Tail(es),
                 [m \in DOMAIN breakdown \cup {entry.model} |->
                      IF m = entry.model THEN updated ELSE breakdown[m]])

get_model_breakdown_skip_first ==
    BreakdownLoop(IF usage_entries = <<>> THEN <<>> ELSE Tail(usage_entries),
                  [m \in {} |-> <<0, 0>>])

\* monitor.rs 143-155
get_model_breakdown == BreakdownLoop(usage_entries, [m \in {} |-> <<0, 0>>])

\* calculator.rs 95-97 through monitor.rs 101-103
get_total_cost ==
    IntSum([i \in 1..Len(session_blocks) |-> session_blocks[i].cost_usd])

\* calculator.rs 99-104 through monitor.rs 105-107
get_total_tokens ==
    IntSum([i \in 1..Len(session_blocks) |->
               TokenCounts_total_tokens(session_blocks[i].token_counts)])

\* --------------------------------------------------------------------- C14
\* C14: for a fixed plan the plan-usage percentage never decreases across
\* an add_entry call.
PlanUsageMonotone ==
    [][last_op' = "add_entry" =>
          \A plan \in ClaudePlans :
              FracLeq(get_plan_usage_percentage(plan),
                      get_plan_usage_percentage(plan)')]_vars

PlanUsageMonotoneWitness ==
    /\ last_op = "add_entry"
    /\ Len(usage_entries) = 3
    /\ Len(session_blocks) = 2
    /\ usage_entries[1].model # usage_entries[3].model
    /\ FracLt(FracOfInt(1), get_plan_usage_percentage("Pro"))

\* ------------------------------------------------------- Calculator calls
\* current_time arguments: inside, at the edge of and after the windows
AtTimes ==
    {BaseTime + 15 * Minute, BaseTime + 45 * Minute, BaseTime + 2 * Hour,
     BaseTime + DefaultSessionHours * Hour - 1,
     BaseTime + DefaultSessionHours * Hour,
     BaseTime + DefaultSessionHours * Hour + 10 * Minute}

\* calculator.rs 203, 219, 230: the arguments of the time-to-limit tests,
\* and a limit that the rates below do not divide
TokenAmounts == {0, 500, 1000}
TokenLimits == {10, 500, 1000}
Rates == {Frac(5, 1), Frac(3, 1), Frac(1, 2), Frac(0, 1), Frac(0 - 1, 1)}

\* calculator.rs 193-200: the block of test_empty_block_returns_none
EmptyBlock == SessionBlock_new(BaseTime, BaseTime + Hour)

\* entries of every weight class: opus, sonnet, haiku and a model the
\* catalog does not know
ModelEntries ==
    { OpusEntry(BaseTime), Opus4Entry(BaseTime + 30 * Minute),
      SonnetEntry(BaseTime), HaikuEntry(BaseTime + 30 * Minute),
      UnknownEntry(BaseTime + DefaultSessionHours * Hour) }

\* a monitor that loaded a file, or had entries added one by one
CalcInit ==
    /\ session_duration = DefaultSessionHours * Hour
    /\ entries = <<>>
    /\ idx = 1
    /\ blocks = <<>>
    /\ current_block = <<>>
    /\ pc = "start"
    /\ \/ \E path \in FilePaths :
              /\ load_from_file(path).ok
              /\ usage_entries = load_from_file(path).entries
              /\ last_op = "load_data"
       \/ \E es \in SeqsUpTo(MonitorEntries, MaxEntries) :
              /\ es # <<>>
              /\ usage_entries = sort_by_timestamp(es)
              /\ last_op = "add_entry"
       \/ \E es \in SeqsUpTo(ModelEntries, MaxEntries) :
              /\ es # <<>>
              /\ usage_entries = sort_by_timestamp(es)
              /\ last_op = "add_entry"
    /\ session_blocks = identify_blocks(DefaultSessionHours * Hour, usage_entries)
    /\ last_result = "ok"
    /\ Idle

\* the functions are pure: one call per drawn monitor state
Called(fn, args, result) ==
    /\ calc = NoCall
    /\ calc' = [fn |-> fn, args |-> args, result |-> result]
    /\ UNCHANGED <<session_duration, scan_vars, monitor_vars, app_vars>>

Range(f) == {f[i] : i \in DOMAIN f}

Call_calculate_burn_rate ==
    \E block \in Range(session_blocks) \cup {EmptyBlock} :
        Called("calculate_burn_rate", <<block>>, calculate_burn_rate(block))

Call_project_block_usage ==
    \E block \in Range(session_blocks) \cup {EmptyBlock}, current_time \in AtTimes :
        Called("project_block_usage", <<block, current_time>>,
               project_block_usage(block, current_time))

Call_calculate_hourly_burn_rate ==
    \E current_time \in AtTimes :
        Called("calculate_hourly_burn_rate", <<session_blocks, current_time>>,
               <<calculate_hourly_burn_rate(session_blocks, current_time)>>)

Call_calculate_average_burn_rate ==
    \E bs \in {<<>>, session_blocks, Append(session_blocks, EmptyBlock)} :
        Called("calculate_average_burn_rate", <<bs>>,
               calculate_average_burn_rate(bs))

Call_calculate_time_to_limit ==
    \E current_tokens \in TokenAmounts, token_limit \in TokenLimits,
       current_burn_rate \in Rates :
        Called("calculate_time_to_limit",
               <<current_tokens, token_limit, current_burn_rate>>,
               calculate_time_to_limit(current_tokens, token_limit,
                                       current_burn_rate))

Call_get_plan_usage_percentage ==
    \E plan \in ClaudePlans :
        Called("get_plan_usage_percentage", <<plan>>,
               <<get_plan_usage_percentage(plan)>>)

Call_get_model_breakdown ==
    Called("get_model_breakdown", <<>>, get_model_breakdown)

CalcNext ==
    \/ Call_get_model_breakdown
    \/ Call_get_plan_usage_percentage
    \/ Call_calculate_burn_rate
    \/ Call_project_block_usage
    \/ Call_calculate_hourly_burn_rate
    \/ Call_calculate_average_burn_rate
    \/ Call_calculate_time_to_limit

SpecCalc == CalcInit /\ [][CalcNext]_vars

\* --------------------------------------------------------------------- C11
\* C11: calculate_burn_rate is absent for a block with no entries; otherwise
\* tokens_per_minute is (input + output tokens) / duration_minutes and
\* cost_per_hour is cost / duration_minutes * 60; a block of one entry with
\* 150 input+output tokens has tokens_per_minute 150.
BurnRateFormula ==
    calc.fn = "calculate_burn_rate" =>
        LET b == calc.args[1]
            tokens == SumOf(b.entries, "input_tokens")
                          + SumOf(b.entries, "output_tokens")
        IN  /\ b.entries = <<>> => calc.result = <<>>
            /\ b.entries # <<>> =>
                   /\ calc.result # <<>>
                   /\ calc.result[1].tokens_per_minute
                          = Frac(tokens * SecondsPerMinute, b.duration_minutes)
                   /\ calc.result[1].cost_per_hour
                          = Frac(SumOf(b.entries, "cost_usd") * SecondsPerMinute
                                     * MinutesPerHour,
                                 b.duration_minutes)
            /\ (Len(b.entries) = 1 /\ tokens = 150) =>
                   calc.result = <<BurnRate_new(FracOfInt(150),
                       FracOfInt(b.entries[1].cost_usd * MinutesPerHour))>>

\* a thirty-minute block holding cache tokens as well
BurnRateFormulaWitness ==
    /\ calc.fn = "calculate_burn_rate"
    /\ Len(calc.args[1].entries) = 2
    /\ calc.args[1].duration_minutes = 30 * SecondsPerMinute
    /\ calc.args[1].token_counts.cache_read_input_tokens > 0
    /\ calc.result # <<>>
    /\ calc.result[1].tokens_per_minute = Frac(425, 30)

\* --------------------------------------------------------------------- C12
\* C12: calculate_time_to_limit is absent exactly when current_tokens >=
\* token_limit or the rate is <= 0; otherwise it is a duration of
\* (token_limit - current_tokens) / rate minutes, never negative;
\* (500, 1000, 5.0) gives 100 minutes and (1000, 500, 5.0) gives absent.
TimeToLimitIsQuotient ==
    calc.fn = "calculate_time_to_limit" =>
        LET current_tokens == calc.args[1]
            token_limit == calc.args[2]
            rate == calc.args[3]
            absent == current_tokens >= token_limit \/ FracLeq(rate, FracOfInt(0))
        IN  /\ (calc.result = <<>>) <=> absent
            /\ ~absent =>
                   /\ calc.result[1] >= 0
                   /\ FracOfInt(calc.result[1])
                          = FracMul(FracDiv(FracOfInt(token_limit - current_tokens),
                                            rate),
                                    FracOfInt(Minute))
            /\ calc.args = <<500, 1000, Frac(5, 1)>> =>
                   calc.result = <<100 * Minute>>
            /\ calc.args = <<1000, 500, Frac(5, 1)>> => calc.result = <<>>

\* --------------------------------------------------------------------- C13
\* the burn rate a block defines, from its entries
BlockRate(b) ==
    BurnRate_new(
        Frac((SumOf(b.entries, "input_tokens") + SumOf(b.entries, "output_tokens"))
                 * SecondsPerMinute,
             b.duration_minutes),
        Frac(SumOf(b.entries, "cost_usd") * SecondsPerMinute * MinutesPerHour,
             b.duration_minutes))

\* C13: the average burn rate over a set of blocks is the unweighted
\* arithmetic mean of the per-block burn rates that are defined, separately
\* for tokens_per_minute and cost_per_hour, and is absent when no block has
\* a defined burn rate.
AverageIsUnweightedMean ==
    calc.fn = "calculate_average_burn_rate" =>
        LET with_rate == SelectSeq(calc.args[1], LAMBDA b : b.entries # <<>>)
            rates == [i \in 1..Len(with_rate) |-> BlockRate(with_rate[i])]
            n == FracOfInt(Len(rates))
        IN  /\ rates = <<>> => calc.result = <<>>
            /\ rates # <<>> =>
                   /\ calc.result # <<>>
                   /\ FracMul(calc.result[1].tokens_per_minute, n)
                          = FracSum(rates, "tokens_per_minute")
                   /\ FracMul(calc.result[1].cost_per_hour, n)
                          = FracSum(rates, "cost_per_hour")

\* two blocks of different length and different rates, and one without a rate
AverageIsUnweightedMeanWitness ==
    /\ calc.fn = "calculate_average_burn_rate"
    /\ Len(calc.args[1]) = 3
    /\ calc.args[1][3] = EmptyBlock
    /\ calc.args[1][1].duration_minutes = 30 * SecondsPerMinute
    /\ calc.args[1][2].duration_minutes = SecondsPerMinute
    /\ BlockRate(calc.args[1][1]) # BlockRate(calc.args[1][2])
    /\ calc.result # <<>>

\* --------------------------------------------------------------------- C19
\* C19: project_block_usage(block, at_time) is absent when the block is
\* empty or at_time >= block.end_time; otherwise current_tokens is the
\* block's input + output total, projected_additional_tokens is
\* floor(tokens_per_minute * minutes remaining until end_time), the
\* additional cost is cost_per_hour * hours remaining, and each projected
\* total is the current amount plus the additional amount.
ProjectionFormula ==
    calc.fn = "project_block_usage" =>
        LET b == calc.args[1]
            at_time == calc.args[2]
            remaining_minutes ==
                Frac(num_seconds(b.end_time - at_time), SecondsPerMinute)
            tokens == SumOf(b.entries, "input_tokens")
                          + SumOf(b.entries, "output_tokens")
            additional_tokens ==
                FracFloor(FracMul(BlockRate(b).tokens_per_minute, remaining_minutes))
            additional_cost ==
                FracMul(BlockRate(b).cost_per_hour,
                        FracDiv(remaining_minutes, FracOfInt(MinutesPerHour)))
        IN  IF b.entries = <<>> \/ at_time >= b.end_time
            THEN calc.result = <<>>
            ELSE /\ calc.result # <<>>
                 /\ calc.result[1].current_tokens = tokens
                 /\ calc.result[1].projected_additional_tokens = additional_tokens
                 /\ calc.result[1].projected_total_tokens = tokens + additional_tokens
                 /\ calc.result[1].current_cost = FracOfInt(SumOf(b.entries, "cost_usd"))
                 /\ calc.result[1].projected_additional_cost = additional_cost
                 /\ calc.result[1].projected_total_cost
                        = FracAdd(FracOfInt(SumOf(b.entries, "cost_usd")),
                                  additional_cost)

\* --------------------------------------------------------------------- C20
Min(a, b) == IF a <= b THEN a ELSE b

BlockTokens(b) ==
    SumOf(b.entries, "input_tokens") + SumOf(b.entries, "output_tokens")

\* whole seconds of the span first entry .. last entry of b that lie in the
\* trailing hour ending at at_time
OverlapSeconds(b, at_time) ==
    num_seconds(Min(b.entries[Len(b.entries)].timestamp, at_time)
                    - Max(b.entries[1].timestamp, at_time - Hour))

\* (overlap_minutes / duration_minutes) * block total tokens
Share(b, at_time) ==
    Frac(OverlapSeconds(b, at_time) * BlockTokens(b), b.duration_minutes)

RECURSIVE SumFracs(_)
SumFracs(xs) ==
    IF xs = <<>> THEN FracOfInt(0) ELSE FracAdd(xs[1], SumFracs(Tail(xs)))

\* the shares of the blocks of bs whose overlap is at least least seconds and,
\* when least is positive, whose duration is positive
SumShares(bs, at_time, least) ==
    SumFracs([i \in 1..Len(bs) |->
                 IF /\ OverlapSeconds(bs[i], at_time) >= least
                    /\ (least > 0 => bs[i].duration_minutes > 0)
                 THEN Share(bs[i], at_time)
                 ELSE FracOfInt(0)])

\* every entry of b is inside the trailing hour ending at at_time
EntriesInsideWindow(b, at_time) ==
    \A i \in DOMAIN b.entries :
        /\ at_time - Hour <= b.entries[i].timestamp
        /\ b.entries[i].timestamp <= at_time

\* C20 (as claimed), for a monitor whose entries are in timestamp order:
\* calculate_hourly_burn_rate adds the share (overlap_minutes /
\* duration_minutes) * block total tokens of every block that overlaps the
\* trailing 60-minute window ending at at_time, skips the blocks with no
\* overlap, and divides the sum by 60; whenever a block with positive total
\* tokens has its entries inside that window the result is strictly positive.
HourlyRatePositiveInsideWindow ==
    (calc.fn = "calculate_hourly_burn_rate" /\ IsSorted(usage_entries)) =>
        LET bs == calc.args[1]
            at_time == calc.args[2]
        IN  /\ calc.result[1]
                   = FracDiv(SumShares(bs, at_time, 0),
                             FracOfInt(MinutesPerHour))
            /\ (\E i \in DOMAIN bs :
                    /\ BlockTokens(bs[i]) > 0
                    /\ EntriesInsideWindow(bs[i], at_time))
                   => FracLt(FracOfInt(0), calc.result[1])

\* C20 (amended): calculate_hourly_burn_rate adds the share
\* (overlap_minutes / duration_minutes) * block total tokens of every block
\* whose first-to-last-entry span has a positive overlap, in whole seconds,
\* with the trailing 60-minute window and whose duration_minutes is
\* positive, skips every other block, and divides the sum by 60; the result
\* is strictly positive exactly when one of the counted blocks has positive
\* total tokens, and is zero otherwise.
HourlyRatePositiveOverlap ==
    calc.fn = "calculate_hourly_burn_rate" =>
        LET bs == calc.args[1]
            at_time == calc.args[2]
            counted(b) == OverlapSeconds(b, at_time) > 0 /\ b.duration_minutes > 0
        IN  /\ calc.result[1]
                   = FracDiv(SumShares(bs, at_time, 1),
                             FracOfInt(MinutesPerHour))
            /\ IF \E i \in DOMAIN bs : counted(bs[i]) /\ BlockTokens(bs[i]) > 0
               THEN FracLt(FracOfInt(0), calc.result[1])
               ELSE calc.result[1] = FracOfInt(0)

\* half of a thirty-minute block lies in the window
HourlyRatePositiveOverlapWitness ==
    /\ calc.fn = "calculate_hourly_burn_rate"
    /\ calc.args[2] = BaseTime + 15 * Minute
    /\ Len(calc.args[1]) = 2
    /\ calc.args[1][1].duration_minutes = 30 * SecondsPerMinute
    /\ calc.result[1] = Frac(BlockTokens(calc.args[1][1]), 2 * MinutesPerHour)
    /\ FracLt(FracOfInt(0), calc.result[1])

\* ------------------------------------------- the application: App::run
\* main.rs 300-303: App.state is one Arc<Mutex<AppState>> and AppState owns
\* the UsageMonitor, so entries and blocks sit behind the same Mutex.
\* what data_dir may hold when a load looks at it
AppPaths ==
    { f \in DirLeaves : f.kind = "file" /\ f.ext = "jsonl" }
        \cup SubDirs \cup { Missing }

\* main.rs 120-129: the Some(data_path) branch of AppState::load_data picks
\* UsageMonitor::load_data for a file, load_directory for a directory and
\* returns Err for anything else
LoadPath(path) ==
    IF path.kind = "file" THEN load_from_file(path)
    ELSE IF path.kind = "dir" THEN load_from_directory(path)
    ELSE [ok |-> FALSE, entries |-> <<>>]

LoadOp(path) == IF path.kind = "file" THEN "load_data" ELSE "load_directory"

Mutex_free_always(holders) == TRUE

\* std::sync::Mutex::lock returns only when no thread is inside
Mutex_free(holders) == holders = {}

\* main.rs 306-318: App::new loads once before any task is spawned
AppInit ==
    /\ session_duration = DefaultSessionHours * Hour
    /\ entries = <<>>
    /\ idx = 1
    /\ blocks = <<>>
    /\ current_block = <<>>
    /\ pc = "start"
    /\ \E path \in AppPaths :
           /\ usage_entries = LoadPath(path).entries
           /\ last_op = LoadOp(path)
           /\ last_result = IF LoadPath(path).ok THEN "ok" ELSE "err"
    /\ session_blocks = identify_blocks(DefaultSessionHours * Hour, usage_entries)
    /\ Idle

\* main.rs 329-331: interval.tick() completes and the task calls lock()
BgTick ==
    /\ bg_pc = "sleep"
    /\ bg_pc' = "lock"
    /\ UNCHANGED <<session_duration, scan_vars, monitor_vars, calc_vars,
                   lock_holders, fg_pc>>

\* main.rs 333: lock() returns the guard
BgLock ==
    /\ bg_pc = "lock"
    /\ Mutex_free(lock_holders)
    /\ lock_holders' = lock_holders \cup {"bg"}
    /\ bg_pc' = "load"
    /\ UNCHANGED <<session_duration, scan_vars, monitor_vars, calc_vars, fg_pc>>

\* monitor.rs 32 and 38: the loader runs and, unless it failed, its result
\* is assigned to usage_entries
BgReplaceEntries ==
    /\ bg_pc = "load"
    /\ \E path \in AppPaths :
           LET r == LoadPath(path) IN
           /\ last_op' = LoadOp(path)
           /\ IF r.ok
              THEN /\ usage_entries' = r.entries
                   /\ last_result' = "ok"
                   /\ bg_pc' = "recalculate"
              ELSE /\ last_result' = "err"
                   /\ bg_pc' = "unlock"
                   /\ UNCHANGED usage_entries
    /\ UNCHANGED <<session_duration, scan_vars, session_blocks, calc_vars,
                   lock_holders, fg_pc>>

\* monitor.rs 33 and 39: self.recalculate_blocks()
BgRecalculate ==
    /\ bg_pc = "recalculate"
    /\ session_blocks' = recalculate_blocks(usage_entries)
    /\ bg_pc' = "unlock"
    /\ UNCHANGED <<session_duration, scan_vars, usage_entries, last_op,
                   last_result, calc_vars, lock_holders, fg_pc>>

\* main.rs 336: the guard goes out of scope
BgUnlock ==
    /\ bg_pc = "unlock"
    /\ lock_holders' = lock_holders \ {"bg"}
    /\ bg_pc' = "sleep"
    /\ UNCHANGED <<session_duration, scan_vars, monitor_vars, calc_vars, fg_pc>>

\* main.rs 345, 369-370, 403-447: the foreground loop takes the lock to
\* advance the spinner, to draw, or to handle a key
FgLock ==
    /\ fg_pc = "idle"
    /\ Mutex_free(lock_holders)
    /\ lock_holders' = lock_holders \cup {"fg"}
    /\ fg_pc' \in {"spinner", "draw", "event"}
    /\ UNCHANGED <<session_duration, scan_vars, monitor_vars, calc_vars, bg_pc>>

\* the guard of the foreground loop goes out of scope
FgUnlock ==
    /\ fg_pc \in {"spinner", "draw", "event"}
    /\ lock_holders' = lock_holders \ {"fg"}
    /\ fg_pc' = "idle"
    /\ UNCHANGED <<session_duration, scan_vars, monitor_vars, calc_vars, bg_pc>>

AppNext ==
    \/ BgTick
    \/ BgLock
    \/ BgReplaceEntries
    \/ BgRecalculate
    \/ BgUnlock
    \/ FgLock
    \/ FgUnlock

SpecApp == AppInit /\ [][AppNext]_vars

\* --------------------------------------------------------------------- C15
\* C15: with the background refresh task and the foreground render/event
\* loop running concurrently, entries and blocks are behind one exclusive
\* lock: at most one thread is inside it, entries and blocks change only
\* while the refresh task is inside, and whenever the foreground loop reads
\* the state the blocks are the ones derived from the current entries.
NoTornRead ==
    /\ [](/\ Cardinality(lock_holders) <= 1
          /\ fg_pc \in {"spinner", "draw", "event"} =>
                 /\ "fg" \in lock_holders
                 /\ bg_pc \notin {"load", "recalculate", "unlock"}
                 /\ session_blocks
                        = identify_blocks(DefaultSessionHours * Hour, usage_entries))
    /\ [][(usage_entries' # usage_entries \/ session_blocks' # session_blocks)
              => (lock_holders = {"bg"} /\ lock_holders' = {"bg"})]_vars

\* the foreground loop draws while a refresh that fired is held back
NoTornReadWitness ==
    /\ fg_pc = "draw"
    /\ bg_pc = "lock"
    /\ Len(session_blocks) = 2

\* the refresh is between replacing the entries and re-deriving the blocks
TornInsideLock ==
    /\ bg_pc = "recalculate"
    /\ session_blocks # identify_blocks(DefaultSessionHours * Hour, usage_entries)

\* --------------------------------------------------------------------- C16
\* C16: a scheduled background refresh that fires while the state lock is
\* held by another party is skipped: the refresh task never waits for the
\* lock.
RefreshNeverWaits ==
    ~(bg_pc = "lock" /\ "fg" \in lock_holders)

\* --------------------------------------------------------------------- C21
\* the claimed weight times 10: 5 for opus, 0.2 for haiku, 1.0 otherwise
TenthsWeight(model) ==
    IF model \in {"claude-3-opus-20240229", "claude-opus-4-20250514"} THEN 50
    ELSE IF model \in {"claude-3-haiku-20240307", "claude-3-5-haiku-20241022"} THEN 2
    ELSE 10

PlanCap(plan) ==
    IF plan = "Pro" THEN 44000 ELSE IF plan = "Max5" THEN 220000 ELSE 880000

RECURSIVE WeightedTenths(_)
WeightedTenths(es) ==
    IF es = <<>> THEN 0
    ELSE (es[1].input_tokens + es[1].output_tokens) * TenthsWeight(es[1].model)
             + WeightedTenths(Tail(es))

\* C21: get_plan_usage_percentage(plan) is the sum over all entries of
\* (input + output tokens) * weight(model), divided by the cap of the plan,
\* times 100, with caps 44,000 / 220,000 / 880,000 and weight 5 for opus,
\* 0.2 for haiku and 1.0 for sonnet and for every unknown model; the raw
\* total is not what is compared against the cap.
PlanUsageIsWeighted ==
    calc.fn = "get_plan_usage_percentage" =>
        calc.result[1]
            = Frac(WeightedTenths(usage_entries) * 10, PlanCap(calc.args[1]))

\* three weight classes at once, so the weighted and the raw total differ
PlanUsageIsWeightedWitness ==
    /\ calc.fn = "get_plan_usage_percentage"
    /\ calc.args[1] = "Max5"
    /\ Len(usage_entries) = 3
    /\ \E i, j, k \in DOMAIN usage_entries :
           /\ TenthsWeight(usage_entries[i].model) = 50
           /\ TenthsWeight(usage_entries[j].model) = 2
           /\ usage_entries[k].model = "gpt-4"
    /\ calc.result[1]
           # Frac(SumOf(usage_entries, "input_tokens") * 100
                      + SumOf(usage_entries, "output_tokens") * 100,
                  PlanCap("Max5"))

\* --------------------------------------------------------------------- C22
\* C22: the lock over the monitor state is never held while log files are
\* being read: whenever the refresh task is at the point where the loader
\* reads and parses the files, no thread is inside the lock.
NoFileReadUnderLock ==
    bg_pc = "load" => lock_holders = {}

\* --------------------------------------------------------------------- C23
\* C23: every entry sequence a successful load_from_file or
\* load_from_directory hands to the segmenter is in ascending timestamp
\* order, whatever the order of the lines in the files.
LoadedEntriesSorted ==
    (last_op \in {"load_data", "load_directory"} /\ last_result = "ok")
        => IsSorted(usage_entries)

\* ------------------------------------------------------- parse_line calls
Options(S) == {<<>>} \cup {<<x>> : x \in S}

\* JSON objects in both formats, with and without each optional field
ParseLines ==
    { JsonLine(format, timestamp, model, input_tokens, <<50>>, cc, <<>>, cost_usd) :
          format \in {"message", "simple"},
          timestamp \in Options({Rfc3339(BaseTime, 0), Rfc3339(BaseTime, 1)}),
          model \in Options({"claude-3-sonnet-20240229", "claude-3-5-haiku-20241022",
                             "gpt-4"}),
          input_tokens \in Options({100}),
          cc \in Options({25}),
          cost_usd \in Options({0, 1000}) }
        \cup { JsonLine("none", <<Rfc3339(BaseTime, 0)>>, <<"gpt-4">>, <<>>, <<>>,
                        <<>>, <<>>, <<>>),
               BlankLine, JunkLine }

Call_parse_line ==
    /\ calc = NoCall
    /\ \E line \in ParseLines :
        Called("parse_line", <<line>>, parse_line(line))

SpecParse == MonitorInit /\ [][Call_parse_line]_vars

\* --------------------------------------------------------------------- C24
\* the Pricing Catalog's cost in micro-dollars, from the published rates in
\* dollars per million tokens; zero for a model the catalog does not have
CatalogCost(e) ==
    LET m == e.model
        sonnet == m \in {"claude-3-sonnet-20240229", "claude-3-5-sonnet-20240620",
                         "claude-3-5-sonnet-20241022", "claude-sonnet-4-20250514"}
        haiku35 == m = "claude-3-5-haiku-20241022"
    IN  IF sonnet
        THEN (e.input_tokens * 3000 + e.output_tokens * 15000
                  + e.cache_creation_input_tokens * 3750
                  + e.cache_read_input_tokens * 300 + 500) \div 1000
        ELSE IF haiku35
        THEN (e.input_tokens * 1000 + e.output_tokens * 5000
                  + e.cache_creation_input_tokens * 1250
                  + e.cache_read_input_tokens * 100 + 500) \div 1000
        ELSE 0

\* C24: for every parsed record, in either record format, the entry's cost
\* is the record's cost field verbatim when it is present, and the Pricing
\* Catalog's cost for the record's model and four token counts when it is
\* absent (zero only if the catalog does not know the model).
CostVerbatimOrCatalog ==
    (calc.fn = "parse_line" /\ calc.result.ok) =>
        LET line == calc.args[1]
            e == calc.result.entry
        IN  /\ line.cost_usd # <<>> => e.cost_usd = line.cost_usd[1]
            /\ line.cost_usd = <<>> =>
                   /\ e.cost_usd = CatalogCost(e)
                   /\ e.cost_usd = 0 => get_pricing(e.model) = <<>>

\* ------------------------------------------------ load_from_directory calls
Call_load_from_directory ==
    /\ calc = NoCall
    /\ \E dir_path \in DirPaths :
        Called("load_from_directory", <<dir_path>>, load_from_directory(dir_path))

SpecLoad == MonitorInit /\ [][Call_load_from_directory]_vars

\* --------------------------------------------------------------------- C25
Unreadable(item) ==
    item.kind = "bad_entry" \/ (item.kind \in {"file", "dir"} /\ ~item.readable)

\* the number of unreadable items below dir, at any depth
RECURSIVE CountUnreadable(_)
CountUnreadable(dir) ==
    IntSum([i \in 1..Len(dir.items) |->
               IF Unreadable(dir.items[i]) THEN 1
               ELSE IF dir.items[i].kind = "dir" THEN CountUnreadable(dir.items[i])
               ELSE 0])

\* the entries of every readable .jsonl file below dir, in walk order
RECURSIVE ReadableEntries(_)
ReadableEntries(dir) ==
    ConcatEntries([i \in 1..Len(dir.items) |->
        LET item == dir.items[i] IN
        [entries |->
            IF item.kind = "file" /\ item.readable /\ item.ext = "jsonl"
            THEN ReadLines(item.lines, <<>>)
            ELSE IF item.kind = "dir" /\ item.readable
            THEN ReadableEntries(item)
            ELSE <<>>]])

\* C25: a directory load that meets one unreadable item (a file, a
\* subdirectory or a directory entry, at any depth) does not abort:
\* load_from_directory returns Ok with the entries of all the readable
\* .jsonl files.
UnreadableItemSkipped ==
    (/\ calc.fn = "load_from_directory"
     /\ calc.args[1].kind = "dir"
     /\ calc.args[1].readable
     /\ CountUnreadable(calc.args[1]) = 1)
        => /\ calc.result.ok
           /\ calc.result.entries
                  = sort_by_timestamp(ReadableEntries(calc.args[1]))

\* --------------------------------------------------------------------- C26
ModelsPresent == {usage_entries[i].model : i \in DOMAIN usage_entries}

EntriesOf(model) == SelectSeq(usage_entries, LAMBDA e : e.model = model)

\* the sum of component k of f over the models in S
RECURSIVE SumOver(_, _, _)
SumOver(f, S, k) ==
    IF S = {} THEN 0
    ELSE LET m == CHOOSE x \in S : TRUE IN f[m][k] + SumOver(f, S \ {m}, k)

\* C26: get_model_breakdown maps each model present in the entry list to
\* (sum of input + output tokens, sum of cost) over that model's entries;
\* the token sums over all models add up to get_total_tokens and the costs
\* add up to get_total_cost.
BreakdownPerModel ==
    calc.fn = "get_model_breakdown" =>
        /\ DOMAIN calc.result = ModelsPresent
        /\ \A m \in ModelsPresent :
               calc.result[m]
                   = <<SumOf(EntriesOf(m), "input_tokens")
                           + SumOf(EntriesOf(m), "output_tokens"),
                       SumOf(EntriesOf(m), "cost_usd")>>
        /\ SumOver(calc.result, ModelsPresent, 1) = get_total_tokens
        /\ SumOver(calc.result, ModelsPresent, 2) = get_total_cost

\* two entries of one model in different blocks, and a second model
BreakdownPerModelWitness ==
    /\ calc.fn = "get_model_breakdown"
    /\ Len(usage_entries) = 3
    /\ Len(session_blocks) = 2
    /\ Cardinality(ModelsPresent) = 2
    /\ usage_entries[1].model = usage_entries[3].model
    /\ usage_entries[2].cache_creation_input_tokens > 0

\* --------------------------------------------------------------------- C27
SameBlock(a, b) ==
    /\ a.start_time = b.start_time
    /\ a.end_time = b.end_time
    /\ a.entries = b.entries

\* new_blocks is old_blocks with entry appended to its last block, or with
\* one more block that holds entry alone
ExtendedBy(old_blocks, new_blocks, entry) ==
    LET n == Len(old_blocks) IN
    \/ /\ n > 0
       /\ Len(new_blocks) = n
       /\ \A i \in 1..(n - 1) : SameBlock(new_blocks[i], old_blocks[i])
       /\ new_blocks[n].start_time = old_blocks[n].start_time
       /\ new_blocks[n].end_time = old_blocks[n].end_time
       /\ new_blocks[n].entries = Append(old_blocks[n].entries, entry)
    \/ /\ Len(new_blocks) = n + 1
       /\ \A i \in 1..n : SameBlock(new_blocks[i], old_blocks[i])
       /\ new_blocks[n + 1].entries = <<entry>>

\* C27: an add_entry whose entry has a timestamp >= that of every entry
\* already held leaves every previously derived block except the last as it
\* was, and either extends the last block by that entry or adds exactly one
\* new block after it.
AppendExtendsLastBlock ==
    [][\A entry \in MonitorEntries :
           (/\ last_op' = "add_entry"
            /\ usage_entries' = sort_by_timestamp(Append(usage_entries, entry))
            /\ \A i \in DOMAIN usage_entries :
                   usage_entries[i].timestamp <= entry.timestamp)
               => ExtendedBy(session_blocks, session_blocks', entry)]_vars

\* --------------------------------------------------------------------- C28
\* monitor.rs 119-128: the filter of get_active_sessions over a block list
ActiveAt(bs, current_time) ==
    SelectSeq(bs, LAMBDA block :
        /\ block.entries # <<>>
        /\ current_time >= block.start_time
        /\ current_time < block.end_time)

\* monitor.rs 119-128
get_active_sessions(current_time) == ActiveAt(session_blocks, current_time)

\* C28: for timestamp-ordered input under the 5-hour window the intervals
\* [start_time, end_time) of the produced blocks are pairwise disjoint with
\* strictly increasing start_time, every entry lies inside the interval of
\* its own block, and at most one block is active at any time.
BlocksDisjoint ==
    (pc = "done" /\ IsSorted(entries)
         /\ session_duration = DefaultSessionHours * Hour) =>
        /\ \A i \in DOMAIN blocks : \A j \in DOMAIN blocks :
               i < j => /\ blocks[i].start_time < blocks[j].start_time
                        /\ blocks[i].end_time <= blocks[j].start_time
        /\ \A i \in DOMAIN blocks : \A k \in DOMAIN blocks[i].entries :
               /\ blocks[i].start_time <= blocks[i].entries[k].timestamp
               /\ blocks[i].entries[k].timestamp < blocks[i].end_time
        \* probed every half hour from one hour before the first entry to the
        \* end of the latest window
        /\ \A t \in {BaseTime - Hour + k * 30 * Minute : k \in 0..26} \cup TimePoints :
               Len(ActiveAt(blocks, t)) <= 1

\* adjacent windows: the second block starts where the first one ends
BlocksDisjointWitness ==
    /\ pc = "done"
    /\ IsSorted(entries)
    /\ session_duration = DefaultSessionHours * Hour
    /\ Len(blocks) = 2
    /\ blocks[1].end_time = blocks[2].start_time
    /\ Len(blocks[1].entries) = 2
    /\ Len(ActiveAt(blocks, BaseTime + DefaultSessionHours * Hour)) = 1

\* --------------------------------------------------------------------- C29
\* C29: when load_data or load_directory returns an error, usage_entries and
\* session_blocks are what they were before the call.
FailedLoadKeepsData ==
    [][(last_op' \in {"load_data", "load_directory"} /\ last_result' = "err")
          => (usage_entries' = usage_entries /\ session_blocks' = session_blocks)]_vars

\* a load failed on a monitor that holds two blocks
FailedLoadKeepsDataWitness ==
    /\ last_op = "load_directory"
    /\ last_result = "err"
    /\ Len(usage_entries) = 3
    /\ Len(session_blocks) = 2

\* ------------------------------------------------------ AppState::load_data
\* main.rs 91-100: the fields of AppState that load_data touches; the
\* UsageMonitor is its two vectors
AppState(es, is_loading, data_loaded, error_message) ==
    [usage_entries |-> es,
     session_blocks |-> identify_blocks(DefaultSessionHours * Hour, es),
     is_loading |-> is_loading,
     data_loaded |-> data_loaded,
     error_message |-> error_message]

\* monitor.rs 31-41 on the monitor inside state, r being what the loader
\* returned: Ok replaces the entries and re-derives the blocks, Err changes
\* nothing
MonitorLoad(state, r) ==
    IF r.ok
    THEN [state |-> [state EXCEPT
                         !.usage_entries = r.entries,
                         !.session_blocks =
                             identify_blocks(DefaultSessionHours * Hour, r.entries)],
          result |-> "ok"]
    ELSE [state |-> state, result |-> "Failed to load"]


RECURSIVE DiscoverLoop(_, _, _, _)

\* main.rs 144-154: the body of the for loop, r being what the load of
\* path i returned
DiscoverStep(r, claude_paths, i, last_error) ==
    IF r.result = "ok"
    THEN IF r.state.usage_entries # <<>>
         THEN [state |-> r.state, loaded_any |-> TRUE, last_error |-> last_error]
         ELSE DiscoverLoop(r.state, claude_paths, i + 1, last_error)
    ELSE DiscoverLoop(r.state, claude_paths, i + 1, <<r.result>>)

\* main.rs 143-155: the for loop over claude_paths from path i on
DiscoverLoop(state, claude_paths, i, last_error) ==
    IF i > Len(claude_paths)
    THEN [state |-> state, loaded_any |-> FALSE, last_error |-> last_error]
    ELSE DiscoverStep(MonitorLoad(state, LoadPath(claude_paths[i])),
                      claude_paths, i, last_error)

\* main.rs 170-184: the match on result and the final assignments
FinishLoad(state, result) ==
    [state |-> [state EXCEPT
                    !.data_loaded = (result = "ok"),
                    !.error_message = IF result = "ok" THEN <<>> ELSE <<result>>,
                    !.is_loading = FALSE],
     result |-> result]

\* main.rs 157-168: what follows the loop, l being what the loop left
AfterDiscover(l) ==
    IF ~l.loaded_any
    THEN [state |-> l.state,
          result |-> IF l.last_error # <<>> THEN l.last_error[1]
                     ELSE "No usage data found"]
    ELSE FinishLoad(l.state, "ok")

\* main.rs 116-185; data_dir is an Option, claude_paths is what
\* discover_claude_data_paths returns
AppState_load_data(state, data_dir, claude_paths) ==
    LET started == [state EXCEPT !.is_loading = TRUE, !.error_message = <<>>] IN
    IF data_dir # <<>>
    THEN IF data_dir[1].kind \in {"file", "dir"}
         THEN LET r == MonitorLoad(started, LoadPath(data_dir[1])) IN
              FinishLoad(r.state, r.result)
         ELSE [state |-> started, result |-> "Path does not exist"]
    ELSE IF claude_paths = <<>>
         THEN [state |-> started, result |-> "No Claude data directories found"]
         ELSE AfterDiscover(DiscoverLoop(started, claude_paths, 1, <<>>))

\* the states load_data is called in: fresh, loaded, failed, and with the
\* loading flag left set
AppStates ==
    { AppState(es, is_loading, data_loaded, error_message) :
          es \in {<<>>, <<SonnetEntry(BaseTime)>>},
          is_loading \in BOOLEAN,
          data_loaded \in BOOLEAN,
          error_message \in {<<>>, <<"Failed to load">>} }

\* the standard directories that exist, in order: each is empty, holds one
\* file with one record, or cannot be read
ClaudeDirs ==
    { DirNode(TRUE, <<>>),
      DirNode(TRUE, <<FileNode("jsonl", TRUE,
                               <<RecordLine(SonnetEntry(BaseTime + 30 * Minute))>>)>>),
      DirNode(FALSE, <<>>) }

Call_AppState_load_data ==
    /\ calc = NoCall
    /\ \E state \in AppStates, data_dir \in Options(AppPaths), claude_paths \in SeqsUpTo(ClaudeDirs, 2) :
           /\ ~(state.data_loaded /\ state.error_message # <<>>)
           /\ Called("AppState_load_data", <<state, data_dir, claude_paths>>,
                     AppState_load_data(state, data_dir, claude_paths))

SpecAppState == MonitorInit /\ [][Call_AppState_load_data]_vars

\* --------------------------------------------------------------------- C30
\* C30: whenever AppState::load_data returns an error, on return is_loading
\* is false, data_loaded is false and error_message holds that error; no
\* call returns with is_loading still true.
LoadErrorReported ==
    calc.fn = "AppState_load_data" =>
        /\ ~calc.result.state.is_loading
        /\ calc.result.result # "ok" =>
               /\ ~calc.result.state.data_loaded
               /\ calc.result.state.error_message = <<calc.result.result>>
====
